---- MODULE Spec2Model ----
(***************************************************************************)
(* VitalCare AI (src/app.py): the session-scoped rate limiter and the      *)
(* request lifecycle of one Streamlit session.  The script is executed     *)
(* from top to bottom on every user interaction (a "run"); pc is the       *)
(* position of the current run in the script, or the place where the last  *)
(* run ended.  Time is counted in whole seconds.                           *)
(***************************************************************************)
EXTENDS Integers, FiniteSets, Sequences, TLC

\* ---------------------------------------------------------------- constants
Window == 60            \* timedelta(minutes=1), in seconds
Budget == 8             \* request_count >= 8
SleepSeconds == 3       \* time.sleep(3)
max_size == 5 * 1024 * 1024

\* ------------------------------------------------------------------- bounds
MaxTime == 120          \* the clock is observed up to this second

\* Seconds the user lets pass between the end of a run and the next interaction.
WaitSteps == {0, 20, 57, 58}
\* Seconds model.generate_content takes to return or raise.
CallDurations == {0, 30}

MaxCallDuration == CHOOSE d \in CallDurations : \A e \in CallDurations : e <= d

Null == "None"         \* None, for values that are strings
NoTime == -1           \* None, for values that are times

\* ------------------------------------------------------------------- inputs
\* An uploaded file: its byte length and whether PIL can decode it.
Files ==
    { [present |-> TRUE, size |-> max_size,     decodable |-> TRUE],
      [present |-> TRUE, size |-> max_size + 1, decodable |-> TRUE],
      [present |-> TRUE, size |-> max_size - 1, decodable |-> FALSE] }
\* uploaded_file is None.
NoFile == [present |-> FALSE, size |-> 0, decodable |-> FALSE]

\* An exception message, as the set of the marker substrings it contains.
Tokens == {"429", "Quota", "quota", "SAFETY", "safety", "internal"}
Messages ==
    { {"internal"}, {"429"}, {"Quota"}, {"SAFETY"}, {"safety", "internal"},
      {"quota", "safety"}, {"429", "SAFETY"} }

\* What model.generate_content produces: a response object (None, one without
\* a text attribute, one with empty or non-empty text) or a raised exception.
Responses ==
    {[tag |-> "none"], [tag |-> "notext"]}
    \cup [tag : {"text"}, text : {"", "report"}]
    \cup [tag : {"error"}, msg : Messages]

NoResponse == [tag |-> "unset"]

VARIABLES
    now,                \* datetime.now(), whole seconds
    last_request_time,  \* st.session_state.last_request_time
    request_count,      \* st.session_state.request_count
    api_key,            \* whether api_key.py imports and configures
    model,              \* the cached result of get_model()
    constructed,        \* model clients get_model() tried to construct
    pc,                 \* position of the run in the script
    uploaded_file,      \* st.file_uploader's value in this run
    clicked,            \* st.button's value in this run
    remaining_time,     \* seconds shown in the denied branch
    response,           \* what generate_content produced in this run
    kind,               \* classification of the finished analysis
    entry,              \* session state when the run started, how the
                        \* previous run ended and, if it was denied, the
                        \* time at which the wait it displayed is over
    checks,             \* can_make_request calls in this run
    records,            \* update_request_tracker calls in this run
    calls,              \* generate_content calls in this run
    window_start,       \* time of the first recorded request since the last reset
    history,            \* times of the most recent recorded requests
    other_session       \* st.session_state of a second browser session

vars == <<now, last_request_time, request_count, api_key, model, constructed, pc, uploaded_file, clicked,
          remaining_time, response, kind, entry, checks, records, calls,
          window_start, history, other_session>>

env == <<api_key>>
session == <<last_request_time, request_count>>
run_input == <<uploaded_file, clicked>>
counters == <<checks, records, calls>>
ghost == <<window_start, history>>

\* Where a run can end; the page then waits for the next interaction.
Halted == {"StartupFailed"}
Resting == {"Idle", "NoFile", "Rejected", "Denied", "Ready", "Succeeded", "Failed"}
\* Runs that rendered the analyze button.
ButtonShown == {"Ready", "Succeeded", "Failed"}

----------------------------------------------------------------------------
\* ------------------------------------------------------------ rate limiter

\* Mutant: the window counts as rolled over already at exactly 60 seconds.
WindowExpired_AtSixty(lrt, t) == lrt = NoTime \/ t - lrt >= Window

\* Mutant: the window is two minutes long.
WindowExpired_TwoMinutes(lrt, t) == lrt = NoTime \/ t - lrt > 2 * Window

\* Mutant: the window is measured in seconds instead of minutes.
WindowExpired_OneSecond(lrt, t) == lrt = NoTime \/ t - lrt > 1

\* can_make_request, lines 26-27: the counter window has rolled over.
WindowExpired(lrt, t) == lrt = NoTime \/ t - lrt > Window

\* Mutant: the counter is reset only while no request was ever recorded.
CountAfterReset_FirstOnly(lrt, rc, t) == IF lrt = NoTime THEN 0 ELSE rc

\* can_make_request, lines 26-28: the counter after the reset test.
CountAfterReset(lrt, rc, t) == IF WindowExpired(lrt, t) THEN 0 ELSE rc

\* Mutant: the limit test lets a ninth request through.
Allowed_OffByOne(rc) == ~(rc > Budget)

\* can_make_request, lines 31-34: the returned flag.
Allowed(rc) == ~(rc >= Budget)

\* timedelta.seconds of a non-negative difference below one day.
TimedeltaSeconds(d) == d % 86400

\* line 166: remaining_time.
RemainingTime(lrt, t) == Window - TimedeltaSeconds(t - lrt)

\* The last n elements of a sequence.
LastN(s, n) == IF Len(s) <= n THEN s ELSE SubSeq(s, Len(s) - n + 1, Len(s))

----------------------------------------------------------------------------
\* ----------------------------------------------------------- classification

\* str.lower() on a marker substring.
Lower(tok) ==
    CASE tok = "Quota" -> "quota"
      [] tok = "SAFETY" -> "safety"
      [] OTHER -> tok

LowerMsg(msg) == {Lower(tok) : tok \in msg}

\* Mutant: the quota test without .lower().
Classify_CaseSensitive(r) ==
    IF r.tag = "error"
    THEN IF "429" \in r.msg \/ "quota" \in r.msg
         THEN "ProviderRateLimited"
         ELSE IF "safety" \in LowerMsg(r.msg)
              THEN "SafetyRejected"
              ELSE "ProviderError"
    ELSE IF r.tag = "text" /\ r.text # ""
         THEN "Succeeded"
         ELSE "EmptyResponse"

\* lines 189 and 222-238: the outcome of the analysis.
Classify(r) ==
    IF r.tag = "error"
    THEN IF "429" \in r.msg \/ "quota" \in LowerMsg(r.msg)
         THEN "ProviderRateLimited"
         ELSE IF "safety" \in LowerMsg(r.msg)
              THEN "SafetyRejected"
              ELSE "ProviderError"
    ELSE IF r.tag = "text" /\ r.text # ""
         THEN "Succeeded"
         ELSE "EmptyResponse"

----------------------------------------------------------------------------
Init ==
    /\ now = 0
    /\ last_request_time = NoTime
    /\ request_count = 0
    /\ api_key = "unset"
    /\ model = "unset"
    /\ constructed = {}
    /\ pc = "Idle"
    /\ uploaded_file = NoFile
    /\ clicked = FALSE
    /\ remaining_time = NoTime
    /\ response = NoResponse
    /\ kind = Null
    /\ entry = [last_request_time |-> NoTime, request_count |-> 0,
                window_start |-> NoTime, prev |-> "Idle",
                retry_at |-> NoTime]
    /\ checks = 0
    /\ records = 0
    /\ calls = 0
    /\ window_start = NoTime
    /\ history = <<>>
    /\ other_session = [last_request_time |-> NoTime, request_count |-> 0]

\* The user interacts w seconds after the last run ended and the script is
\* executed again: f is the uploader's value, c whether the interaction was
\* a press of the analyze button (possible only if the last run rendered it,
\* and then the file is the one already uploaded).  After a startup failure
\* the page shows no widget; the script can only be run again as it is.
Rerun(f, c, w) ==
    /\ pc \in Resting \cup Halted
    /\ c => (pc \in ButtonShown /\ f = uploaded_file)
    /\ pc \in Halted => (~c /\ f = uploaded_file)
    /\ now + w + SleepSeconds + MaxCallDuration <= MaxTime
    /\ now' = now + w
    /\ uploaded_file' = f
    /\ clicked' = c
    /\ pc' = "ApiSetup"
    /\ remaining_time' = NoTime
    /\ response' = NoResponse
    /\ kind' = Null
    /\ entry' = [last_request_time |-> last_request_time,
                 request_count |-> request_count,
                 window_start |-> window_start, prev |-> pc,
                 retry_at |-> IF pc = "Denied" THEN now + remaining_time
                              ELSE NoTime]
    /\ checks' = 0
    /\ records' = 0
    /\ calls' = 0
    /\ UNCHANGED <<session, env, model, constructed, ghost>>
    /\ UNCHANGED other_session

\* lines 47-53: import the key and configure the API, or stop.  ok is whether
\* the import and genai.configure succeed the first time they are executed;
\* the imported module stays loaded for the later runs.
ApiSetup(ok) ==
    /\ pc = "ApiSetup"
    /\ api_key' = IF api_key = "unset" THEN (IF ok THEN "ok" ELSE "missing")
                  ELSE api_key
    /\ pc' = IF api_key' = "ok" THEN "GetModel" ELSE "StartupFailed"
    /\ UNCHANGED <<now, session, model, constructed, run_input,
                   remaining_time, response, kind, entry, counters, ghost>>
    /\ UNCHANGED other_session

\* Mutant: both clients are built up front and the first usable one is kept.
GetModel_EagerFallback(primary, secondary) ==
    /\ pc = "GetModel"
    /\ IF model # "unset"
       THEN UNCHANGED <<model, constructed>>
       ELSE /\ model' = IF primary THEN "gemini-1.5-flash"
                        ELSE IF secondary THEN "gemini-1.5-pro" ELSE Null
            /\ constructed' = constructed \cup {"gemini-1.5-flash", "gemini-1.5-pro"}
    /\ pc' = IF model' = Null THEN "StartupFailed" ELSE "Upload"
    /\ UNCHANGED <<now, session, env, run_input, remaining_time, response,
                   kind, entry, counters, ghost>>
    /\ UNCHANGED other_session

\* lines 56-86: get_model() under st.cache_resource, then stop if None.
\* primary and secondary are whether building each client succeeds.
GetModel(primary, secondary) ==
    /\ pc = "GetModel"
    /\ IF model # "unset"
       THEN UNCHANGED <<model, constructed>>
       ELSE IF primary
            THEN /\ model' = "gemini-1.5-flash"
                 /\ constructed' = constructed \cup {"gemini-1.5-flash"}
            ELSE /\ model' = IF secondary THEN "gemini-1.5-pro" ELSE Null
                 /\ constructed' = constructed \cup {"gemini-1.5-flash", "gemini-1.5-pro"}
    /\ pc' = IF model' = Null THEN "StartupFailed" ELSE "Upload"
    /\ UNCHANGED <<now, session, env, run_input, remaining_time, response,
                   kind, entry, counters, ghost>>
    /\ UNCHANGED other_session

\* Mutant: the size test rejects a file of exactly max_size.
ValidateFile_AtLimit ==
    /\ pc = "Upload"
    /\ pc' = IF ~uploaded_file.present THEN "NoFile"
             ELSE IF uploaded_file.size >= max_size THEN "Rejected"
             ELSE IF ~uploaded_file.decodable THEN "Rejected"
             ELSE "CheckingLimit"
    /\ kind' = IF ~uploaded_file.present THEN Null
               ELSE IF uploaded_file.size >= max_size THEN "TooLarge"
               ELSE IF ~uploaded_file.decodable THEN "Undecodable"
               ELSE Null
    /\ UNCHANGED <<now, session, env, model, constructed, run_input,
                   remaining_time, response, entry, counters, ghost>>
    /\ UNCHANGED other_session

\* lines 125-156: file validation.
ValidateFile ==
    /\ pc = "Upload"
    /\ pc' = IF ~uploaded_file.present THEN "NoFile"
             ELSE IF uploaded_file.size > max_size THEN "Rejected"
             ELSE IF ~uploaded_file.decodable THEN "Rejected"
             ELSE "CheckingLimit"
    /\ kind' = IF ~uploaded_file.present THEN Null
               ELSE IF uploaded_file.size > max_size THEN "TooLarge"
               ELSE IF ~uploaded_file.decodable THEN "Undecodable"
               ELSE Null
    /\ UNCHANGED <<now, session, env, model, constructed, run_input,
                   remaining_time, response, entry, counters, ghost>>
    /\ UNCHANGED other_session

\* Mutant: a denied attempt restarts the wait.
CheckLimit_DenyRestartsWait ==
    /\ pc = "CheckingLimit"
    /\ checks' = checks + 1
    /\ request_count' = CountAfterReset(last_request_time, request_count, now)
    /\ IF Allowed(request_count')
       THEN /\ pc' = "Allowed"
            /\ UNCHANGED <<remaining_time, last_request_time>>
       ELSE /\ pc' = "Denied"
            /\ remaining_time' = RemainingTime(last_request_time, now)
            /\ last_request_time' = now
    /\ UNCHANGED <<now, env, model, constructed, run_input,
                   response, kind, entry, records, calls, ghost>>
    /\ UNCHANGED other_session

\* lines 162-167: can_make_request() and the denied branch.
CheckLimit ==
    /\ pc = "CheckingLimit"
    /\ checks' = checks + 1
    /\ request_count' = CountAfterReset(last_request_time, request_count, now)
    /\ IF Allowed(request_count')
       THEN /\ pc' = "Allowed"
            /\ UNCHANGED remaining_time
       ELSE /\ pc' = "Denied"
            /\ remaining_time' = RemainingTime(last_request_time, now)
    /\ UNCHANGED <<now, last_request_time, env, model, constructed, run_input,
                   response, kind, entry, records, calls, ghost>>
    /\ UNCHANGED other_session

\* Mutant: the request is not recorded before the call.
AnalyzeButton_NoRecord ==
    /\ pc = "Allowed"
    /\ pc' = IF clicked THEN "Delaying" ELSE "Ready"
    /\ UNCHANGED <<now, session, env, model, constructed, run_input,
                   remaining_time, response, kind, entry, counters, ghost>>
    /\ UNCHANGED other_session

\* Mutant: the request is counted twice.
AnalyzeButton_DoubleCount ==
    /\ pc = "Allowed"
    /\ IF clicked
       THEN /\ last_request_time' = now
            /\ request_count' = request_count + 2
            /\ records' = records + 1
            /\ window_start' = IF request_count = 0 THEN now ELSE window_start
            /\ history' = LastN(Append(history, now), Budget + 1)
            /\ pc' = "Delaying"
       ELSE /\ pc' = "Ready"
            /\ UNCHANGED <<session, records, ghost>>
    /\ UNCHANGED <<now, env, model, constructed, run_input, remaining_time,
                   response, kind, entry, checks, calls>>
    /\ UNCHANGED other_session

\* lines 169-175: the analyze button and update_request_tracker().
AnalyzeButton ==
    /\ pc = "Allowed"
    /\ IF clicked
       THEN /\ last_request_time' = now
            /\ request_count' = request_count + 1
            /\ records' = records + 1
            /\ window_start' = IF request_count = 0 THEN now ELSE window_start
            /\ history' = LastN(Append(history, now), Budget + 1)
            /\ pc' = "Delaying"
       ELSE /\ pc' = "Ready"
            /\ UNCHANGED <<session, records, ghost>>
    /\ UNCHANGED <<now, env, model, constructed, run_input, remaining_time,
                   response, kind, entry, checks, calls>>
    /\ UNCHANGED other_session

\* Mutant: no delay before the call.
Sleep_NoDelay ==
    /\ pc = "Delaying"
    /\ pc' = "Calling"
    /\ UNCHANGED <<now, session, env, model, constructed, run_input,
                   remaining_time, response, kind, entry, counters, ghost>>
    /\ UNCHANGED other_session

\* line 178: time.sleep(3).
Sleep ==
    /\ pc = "Delaying"
    /\ now' = now + SleepSeconds
    /\ pc' = "Calling"
    /\ UNCHANGED <<session, env, model, constructed, run_input, remaining_time,
                   response, kind, entry, counters, ghost>>
    /\ UNCHANGED other_session

\* Mutant: a provider error is retried.
GenerateContent_Retry(r, d) ==
    /\ pc = "Calling"
    /\ now' = now + d
    /\ calls' = calls + 1
    /\ response' = r
    /\ kind' = Classify(r)
    /\ pc' = IF kind' = "Succeeded" THEN "Succeeded"
             ELSE IF r.tag = "error" /\ calls = 0 THEN "Calling"
             ELSE "Failed"
    /\ UNCHANGED <<session, env, model, constructed, run_input, remaining_time,
                   entry, checks, records, ghost>>
    /\ UNCHANGED other_session

\* lines 181-238: the model call, which takes d seconds and produces r, and
\* the handling of its outcome.
GenerateContent(r, d) ==
    /\ pc = "Calling"
    /\ now' = now + d
    /\ calls' = calls + 1
    /\ response' = r
    /\ kind' = Classify(r)
    /\ pc' = IF kind' = "Succeeded" THEN "Succeeded" ELSE "Failed"
    /\ UNCHANGED <<session, env, model, constructed, run_input, remaining_time,
                   entry, checks, records, ghost>>
    /\ UNCHANGED other_session

Next ==
    \/ \E f \in Files \cup {NoFile}, c \in BOOLEAN, w \in WaitSteps : Rerun(f, c, w)
    \/ \E ok \in BOOLEAN : ApiSetup(ok)
    \/ \E primary \in BOOLEAN, secondary \in BOOLEAN : GetModel(primary, secondary)
    \/ ValidateFile
    \/ CheckLimit
    \/ AnalyzeButton
    \/ Sleep
    \/ \E r \in Responses, d \in CallDurations : GenerateContent(r, d)

Spec == Init /\ [][Next]_vars

----------------------------------------------------------------------------
\* ------------------------------------------------------- a second session
SessionsMaxTime == 30   \* the clock bound while two sessions are observed

\* Mutant: the limiter state is one module-level object shared by all sessions.
OtherSessionRun_SharedState(c) ==
    /\ api_key = "ok"
    /\ model \in {"gemini-1.5-flash", "gemini-1.5-pro"}
    /\ LET rc == CountAfterReset(last_request_time, request_count, now) IN
          IF c /\ Allowed(rc)
          THEN /\ last_request_time' = now
               /\ request_count' = rc + 1
          ELSE /\ request_count' = rc
               /\ UNCHANGED last_request_time
    /\ other_session' = [last_request_time |-> last_request_time',
                         request_count |-> request_count']
    /\ UNCHANGED <<now, env, model, constructed, pc, run_input, remaining_time,
                   response, kind, entry, counters, ghost>>

\* lines 16-39 and 162-175 executed by a run of the script in another browser
\* session, which has its own st.session_state: can_make_request() and, if
\* it allows and the button was pressed (c), update_request_tracker().
OtherSessionRun(c) ==
    /\ api_key = "ok"
    /\ model \in {"gemini-1.5-flash", "gemini-1.5-pro"}
    /\ LET rc == CountAfterReset(other_session.last_request_time,
                                 other_session.request_count, now) IN
          other_session' =
              IF c /\ Allowed(rc)
              THEN [last_request_time |-> now, request_count |-> rc + 1]
              ELSE [other_session EXCEPT !.request_count = rc]
    /\ UNCHANGED <<now, session, env, model, constructed, pc, run_input,
                   remaining_time, response, kind, entry, counters, ghost>>

SessionsNext ==
    \/ Next /\ now' <= SessionsMaxTime
    \/ \E c \in BOOLEAN : OtherSessionRun(c)

SessionsSpec == Init /\ [][SessionsNext]_vars

\* The steps of a run: the script executes them one after the other without
\* waiting for the user (the model call is assumed to return or raise).
RunStep ==
    \/ \E ok \in BOOLEAN : ApiSetup(ok)
    \/ \E primary \in BOOLEAN, secondary \in BOOLEAN : GetModel(primary, secondary)
    \/ ValidateFile
    \/ CheckLimit
    \/ AnalyzeButton
    \/ Sleep
    \/ \E r \in Responses, d \in CallDurations : GenerateContent(r, d)

LiveSpec == Spec /\ WF_vars(RunStep)

----------------------------------------------------------------------------
TypeOK ==
    /\ now \in 0..MaxTime
    /\ last_request_time \in {NoTime} \cup (0..MaxTime)
    /\ request_count \in Nat
    /\ api_key \in {"unset", "ok", "missing"}
    /\ model \in {"unset", "gemini-1.5-flash", "gemini-1.5-pro", Null}
    /\ pc \in Resting \cup Halted \cup
             {"ApiSetup", "GetModel", "Upload", "CheckingLimit", "Allowed",
              "Delaying", "Calling"}
    /\ uploaded_file \in Files \cup {NoFile}
    /\ clicked \in BOOLEAN
    /\ response \in Responses \cup {NoResponse}
    /\ checks \in Nat /\ records \in Nat /\ calls \in Nat
    /\ window_start \in {NoTime} \cup (0..MaxTime)
    /\ Len(history) <= Budget + 1

\* Recorded requests in the 60 seconds up to t.
RecordedWithin(t) ==
    Cardinality({i \in DOMAIN history : t - history[i] <= Window})

\* The run has just evaluated can_make_request (no time has passed since).
Decided == pc \in {"Allowed", "Denied"}

----------------------------------------------------------------------------
\* C1: a request is allowed while fewer than 8 requests were recorded in the
\* 60 seconds before it, and denied once 8 were recorded in those 60 seconds.
C1_EightPerWindow ==
    Decided =>
        /\ RecordedWithin(now) < Budget => pc = "Allowed"
        /\ RecordedWithin(now) >= Budget => pc = "Denied"

\* C2: when more than 60 seconds have passed since the start of the window
\* (the first recorded request after the last reset), and every recorded
\* request of the window fell within its 60 seconds, the next check resets
\* the counter, allows the request, and the counter is 1 once it is recorded.
C2_WindowOver ==
    /\ entry.window_start # NoTime
    /\ entry.last_request_time <= entry.window_start + Window
    /\ entry.request_count \in 1..Budget

\* C2: such a check resets and allows, and the recorded request is the first.
C2_ResetAfterWindowStart ==
    /\ (Decided /\ C2_WindowOver /\ now - entry.window_start > Window)
          => (pc = "Allowed" /\ request_count = 0)
    /\ (pc = "Delaying" /\ C2_WindowOver /\ now - entry.window_start > Window)
          => request_count = 1

----------------------------------------------------------------------------
\* C3: can_make_request sets request_count to 0 exactly when
\* last_request_time is None or more than 60 seconds old, and then allows the
\* request; at 60 seconds or less it leaves request_count as it was.
C3_ResetExactlyWhenExpired ==
    Decided =>
        IF entry.last_request_time = NoTime \/ now - entry.last_request_time > Window
        THEN request_count = 0 /\ pc = "Allowed"
        ELSE request_count = entry.request_count

\* A full counter is reset 61 seconds after the last recorded request.
C3_Witness ==
    /\ pc = "Allowed"
    /\ entry.request_count = Budget
    /\ request_count = 0
    /\ now - last_request_time = Window + 1

\* C4: update_request_tracker runs exactly once per model call and before it:
\* the call is issued only after one record, a finished run has recorded
\* exactly as often as it called, and a failed call leaves the request
\* counted (the counter is one above the checked counter, the time is the
\* time of the record).
C4_RecordOncePerCall ==
    /\ calls <= records /\ records <= 1
    /\ pc = "Calling" => (records = 1 /\ calls = 0)
    /\ pc \in Resting \cup Halted => records = calls
    /\ pc \in {"Succeeded", "Failed"} =>
          /\ calls = 1
          /\ request_count \in {1, entry.request_count + 1}
          /\ last_request_time > entry.last_request_time
          /\ last_request_time + SleepSeconds <= now

\* A provider error after the request was counted.
C4_Witness ==
    /\ pc = "Failed"
    /\ kind = "ProviderError"
    /\ records = 1 /\ calls = 1
    /\ request_count = entry.request_count + 1

\* C5: a denied run makes no model call and no record, leaves
\* last_request_time and request_count as they were when the run started, and
\* ends there: the next step is a new run.
C5_DeniedState ==
    pc = "Denied" =>
        /\ calls = 0 /\ records = 0
        /\ response = NoResponse
        /\ last_request_time = entry.last_request_time
        /\ request_count = entry.request_count

C5_DeniedStep ==
    pc = "Denied" => (pc' = "ApiSetup" /\ UNCHANGED session)

\* C5: a denied run has had no side effect and is over.
C5_DeniedNoSideEffects == []C5_DeniedState /\ [][C5_DeniedStep]_vars

\* A denial of a request made after full budget use.
C5_Witness ==
    /\ pc = "Denied"
    /\ checks = 1
    /\ request_count = Budget
    /\ now - last_request_time = SleepSeconds

----------------------------------------------------------------------------
\* What an exception message indicates.
IndicatesQuota(msg) == msg \cap {"429", "Quota", "quota"} # {}
IndicatesSafety(msg) == msg \cap {"SAFETY", "safety"} # {}

Kinds == {"Succeeded", "EmptyResponse", "ProviderRateLimited",
          "SafetyRejected", "ProviderError"}

Completed == pc \in {"Succeeded", "Failed"}

\* C6 as stated: every error that indicates a safety rejection is
\* SafetyRejected, every error that indicates 429 or quota is
\* ProviderRateLimited.
C6_AsStated ==
    Completed =>
        /\ kind \in Kinds
        /\ (response.tag = "text" /\ response.text # "") => kind = "Succeeded"
        /\ (response.tag # "error" /\ ~(response.tag = "text" /\ response.text # ""))
              => kind = "EmptyResponse"
        /\ (response.tag = "error" /\ IndicatesQuota(response.msg))
              => kind = "ProviderRateLimited"
        /\ (response.tag = "error" /\ IndicatesSafety(response.msg))
              => kind = "SafetyRejected"
        /\ (response.tag = "error" /\ ~IndicatesQuota(response.msg)
              /\ ~IndicatesSafety(response.msg)) => kind = "ProviderError"

\* C6, amended: the quota test comes first, so an error is SafetyRejected
\* when it indicates a safety rejection and neither 429 nor quota.  The run
\* is Succeeded exactly for non-empty text.
C6_Classification ==
    Completed =>
        /\ kind \in Kinds
        /\ (pc = "Succeeded") = (kind = "Succeeded")
        /\ kind = "Succeeded" <=> (response.tag = "text" /\ response.text # "")
        /\ kind = "EmptyResponse" <=>
              (response.tag # "error" /\ ~(response.tag = "text" /\ response.text # ""))
        /\ kind = "ProviderRateLimited" <=>
              (response.tag = "error" /\ IndicatesQuota(response.msg))
        /\ kind = "SafetyRejected" <=>
              (response.tag = "error" /\ IndicatesSafety(response.msg)
                  /\ ~IndicatesQuota(response.msg))
        /\ kind = "ProviderError" <=>
              (response.tag = "error" /\ ~IndicatesQuota(response.msg)
                  /\ ~IndicatesSafety(response.msg))

\* An error that indicates both a quota condition and a safety rejection.
C6_Witness ==
    /\ pc = "Failed"
    /\ response = [tag |-> "error", msg |-> {"quota", "safety"}]
    /\ kind = "ProviderRateLimited"

----------------------------------------------------------------------------
Terminal == {"Denied", "Succeeded", "Failed"}

\* C7: a run moves Idle, CheckingLimit, then Denied, or Delaying, Calling and
\* Succeeded or Failed.  Succeeded and Failed are entered only from Calling by
\* the model call; Calling only from Delaying, 3 seconds later, with the
\* request recorded; Delaying only from an allowed check, by the record; and
\* every analyze run that reaches the check ends in Denied, Succeeded or Failed.
C7_Step ==
    /\ (pc' \in {"Succeeded", "Failed"} /\ pc' # pc)
          => (pc = "Calling" /\ calls' = calls + 1)
    /\ (pc' = "Calling" /\ pc # "Calling")
          => (pc = "Delaying" /\ now' = now + SleepSeconds /\ records = 1 /\ calls = 0)
    /\ (pc' = "Delaying" /\ pc # "Delaying")
          => (pc = "Allowed" /\ checks = 1 /\ records' = 1 /\ last_request_time' = now)
    /\ (pc' \in {"Allowed", "Denied"} /\ pc' # pc) => pc = "CheckingLimit"
    /\ (pc' = "CheckingLimit" /\ pc # "CheckingLimit") => pc = "Upload"
    /\ pc \in Terminal => pc' \in {pc, "ApiSetup"}

AnalyzeStarted ==
    /\ pc = "CheckingLimit"
    /\ clicked \/ ~Allowed(CountAfterReset(last_request_time, request_count, now))

\* C7: every step follows the lifecycle and every analyze run ends.
C7_Lifecycle ==
    /\ [][C7_Step]_vars
    /\ AnalyzeStarted ~> (pc \in Terminal)

\* An analysis that succeeded right after the delay.
C7_Witness ==
    /\ pc = "Succeeded"
    /\ now = last_request_time + SleepSeconds
    /\ calls = 1

\* C8: a run makes at most one model call and at most one record, and after
\* Succeeded or Failed nothing more happens until the user starts a new run.
C8_Step ==
    /\ calls' > calls => (calls = 0 /\ pc = "Calling")
    /\ records' > records => (records = 0 /\ pc = "Allowed" /\ clicked)
    /\ Completed => (pc' \in {pc, "ApiSetup"})

\* C8: at most one call and one record per run, none of them repeated.
C8_NoRetry == [](calls <= 1 /\ records <= 1) /\ [][C8_Step]_vars

\* A provider rate-limit failure after the one call of the run.
C8_Witness ==
    /\ pc = "Failed"
    /\ kind = "ProviderRateLimited"
    /\ calls = 1 /\ records = 1

----------------------------------------------------------------------------
\* C9: an upload larger than 5 MiB or undecodable ends the run before the
\* limiter: no check, no record, no call, session state as at the start; an
\* upload is TooLarge only when it is larger than 5 MiB, and one of exactly
\* 5 MiB that decodes goes on to the limiter.
C9_RejectedUpload ==
    /\ pc = "Rejected" =>
          /\ uploaded_file.size > max_size \/ ~uploaded_file.decodable
          /\ checks = 0 /\ records = 0 /\ calls = 0
          /\ last_request_time = entry.last_request_time
          /\ request_count = entry.request_count
          /\ (kind = "TooLarge") = (uploaded_file.size > max_size)
    /\ (uploaded_file.present /\ uploaded_file.size <= max_size
           /\ uploaded_file.decodable
           /\ pc \in Resting \ {"Idle"}) => pc # "Rejected"
    /\ checks > 0 =>
          (uploaded_file.present /\ uploaded_file.size <= max_size
              /\ uploaded_file.decodable)

\* A too-large upload in a session that has already recorded requests.
C9_Witness ==
    /\ pc = "Rejected"
    /\ kind = "TooLarge"
    /\ uploaded_file.size = max_size + 1
    /\ request_count > 0

----------------------------------------------------------------------------
\* The guard of Rerun apart from the clock bound of the model.
CanStartRun ==
    ENABLED (\E f \in Files \cup {NoFile}, w \in WaitSteps : Rerun(f, FALSE, w))

\* C10: after Denied or Failed the session state is valid and a new run can
\* be started; the run after a denial or failure is decided by the limiter
\* alone; and a denial happens only within 60 seconds of the last recorded
\* request, so a request made later than that is allowed.
C10_NoLockout ==
    /\ pc \in {"Denied", "Failed"} =>
          /\ request_count \in 1..Budget
          /\ last_request_time \in 0..now
          /\ (now + SleepSeconds + MaxCallDuration <= MaxTime) => CanStartRun
    /\ pc = "Denied" => now - last_request_time <= Window
    /\ (Decided /\ entry.prev \in {"Denied", "Failed"}) =>
          ((pc = "Allowed") =
              (entry.last_request_time = NoTime
                \/ now - entry.last_request_time > Window
                \/ entry.request_count < Budget))

\* The run right after a denial, made more than 60 seconds after the last
\* recorded request, is allowed.
C10_Witness ==
    /\ pc = "Allowed"
    /\ entry.prev = "Denied"
    /\ entry.request_count = Budget
    /\ now - entry.last_request_time > Window

----------------------------------------------------------------------------
\* Positions of the script before the upload section.
Startup == {"Idle", "ApiSetup", "GetModel", "StartupFailed"}

\* C11: a run stops at startup exactly when the credential is missing or
\* neither model client could be built; a session that stops at startup has
\* validated no upload, checked and recorded nothing and called no model, in
\* this run or any earlier one; the secondary client is built only after the
\* primary one failed; and with the credential and one client the run goes on.
C11_StartupState ==
    /\ pc = "StartupFailed" =>
          /\ api_key = "missing" \/ (api_key = "ok" /\ model = Null)
          /\ checks = 0 /\ records = 0 /\ calls = 0
          /\ kind = Null /\ response = NoResponse
          /\ last_request_time = NoTime /\ request_count = 0
          /\ history = <<>>
    /\ api_key = "missing" => (pc \in Startup /\ constructed = {})
    /\ model = Null => (pc \in Startup
                        /\ constructed = {"gemini-1.5-flash", "gemini-1.5-pro"})
    /\ "gemini-1.5-pro" \in constructed =>
          ("gemini-1.5-flash" \in constructed /\ model # "gemini-1.5-flash")
    /\ model = "gemini-1.5-flash" => constructed = {"gemini-1.5-flash"}
    /\ pc \notin Startup =>
          (api_key = "ok" /\ model \in {"gemini-1.5-flash", "gemini-1.5-pro"})

C11_StartupStep ==
    /\ pc = "StartupFailed" => pc' \in {"StartupFailed", "ApiSetup"}
    /\ (pc = "ApiSetup" /\ api_key = "missing") => pc' \in {pc, "StartupFailed"}
    /\ (pc = "GetModel" /\ model = Null) => pc' \in {pc, "StartupFailed"}
    /\ (pc = "GetModel" /\ model \in {"gemini-1.5-flash", "gemini-1.5-pro"})
          => pc' \in {pc, "Upload"}

\* C11: startup errors stop every run before the upload section.
C11_StartupHalts == []C11_StartupState /\ [][C11_StartupStep]_vars

\* Both clients failed to build, and the script was run again.
C11_Witness ==
    /\ pc = "StartupFailed"
    /\ entry.prev = "StartupFailed"
    /\ api_key = "ok"
    /\ model = Null
    /\ constructed = {"gemini-1.5-flash", "gemini-1.5-pro"}

----------------------------------------------------------------------------
\* Recorded requests since the first one after the last reset.
RecordedSinceReset ==
    Cardinality({i \in DOMAIN history : history[i] >= window_start})

\* C12: every update_request_tracker adds exactly 1 to request_count and
\* sets last_request_time to the time of the call, so a counter that was not
\* reset since equals the number of calls made since the reset, and
\* last_request_time is the time of the latest call.
C12_CountState ==
    /\ request_count > 0 =>
          /\ window_start # NoTime
          /\ request_count = RecordedSinceReset
    /\ history # <<>> => last_request_time = history[Len(history)]
    /\ history = <<>> => (last_request_time = NoTime /\ request_count = 0)

C12_RecordStep ==
    records' > records =>
        /\ records' = records + 1
        /\ request_count' = request_count + 1
        /\ last_request_time' = now /\ now' = now

\* C12: the counter counts the recorded requests one by one.
C12_CountsEveryRecord == []C12_CountState /\ [][C12_RecordStep]_vars

\* Three requests recorded after a reset that followed earlier requests.
C12_Witness ==
    /\ pc = "Delaying"
    /\ request_count = 3
    /\ Len(history) > 3
    /\ window_start = history[Len(history) - 2]

----------------------------------------------------------------------------
\* C13: the wait shown on a denial is 60 minus the whole seconds since
\* last_request_time, and lies between 0 and 60.
C13_RetryAfter ==
    pc = "Denied" =>
        /\ remaining_time = Window - (now - last_request_time)
        /\ remaining_time \in 0..Window

\* A denial exactly 60 seconds after the last recorded request shows 0.
C13_Witness ==
    /\ pc = "Denied"
    /\ now - last_request_time = Window
    /\ remaining_time = 0

\* C14: the run that follows a denial, made exactly when the displayed wait
\* is over, is allowed.
C14_WaitSufficient ==
    (Decided /\ entry.prev = "Denied" /\ now = entry.retry_at) => pc = "Allowed"

----------------------------------------------------------------------------
\* C15: request_count stays within 0..8, a positive counter comes with a
\* last_request_time, and a session that has not run yet has neither.
C15_SessionState ==
    /\ request_count \in 0..Budget
    /\ request_count > 0 => last_request_time # NoTime
    /\ last_request_time # NoTime => last_request_time \in 0..now
    /\ pc = "Idle" => (last_request_time = NoTime /\ request_count = 0)

\* The eighth request has just been recorded.
C15_Witness ==
    /\ pc = "Delaying"
    /\ request_count = Budget
    /\ last_request_time = now

\* C16: the nine most recent recorded requests never fit into 60 seconds, so
\* no interval of 60 seconds holds more than 8 recorded requests; the model
\* call of each follows its record by the fixed delay.
C16_AtMostBudgetPerWindow ==
    /\ Len(history) = Budget + 1 =>
          history[Budget + 1] - history[1] > Window
    /\ \A i \in 1..(Len(history) - 1) : history[i] + SleepSeconds <= history[i + 1]
    /\ pc = "Calling" => now = last_request_time + SleepSeconds

\* A ninth request recorded after a reset.
C16_Witness ==
    /\ Len(history) = Budget + 1
    /\ request_count = 1
    /\ pc = "Calling"

----------------------------------------------------------------------------
\* C17: a run of one session leaves the other session's last_request_time
\* and request_count as they are, and the decision of a check is given by
\* the session's own state at the start of the run and the time of the check,
\* the session's counter being the number of its own recorded requests.
C17_State ==
    /\ Decided =>
          ((pc = "Allowed") =
              Allowed(CountAfterReset(entry.last_request_time,
                                      entry.request_count, now)))
    /\ request_count > 0 => request_count = RecordedSinceReset
    /\ pc \in {"Succeeded", "Failed"} => last_request_time = history[Len(history)]

C17_Step ==
    /\ other_session' # other_session => UNCHANGED <<session, pc, ghost>>
    /\ <<session, pc, ghost>>' # <<session, pc, ghost>> => UNCHANGED other_session

====
